---------------------------- MODULE Spec2Model ----------------------------
(***************************************************************************)
(* A model of the SafetyNetAnalyzer class of src/utils/safetyNetAnalyzer.js *)
(* (constructor, updateConfig, validateConfig, analyze, generatePlots and   *)
(* the helpers they call).  config, results and last are one analyzer: its  *)
(* two fields and a record of its last call; analysed remembers whether an  *)
(* analyze of it has ever returned; other is a second analyzer; solver is   *)
(* the bisection loop of _calculateMaxDeflection taken one iteration at a   *)
(* time; app is the state of the App component and of its                   *)
(* ConfigurationForm (the useState values) with the handler under way.      *)
(*                                                                         *)
(* Numbers.  A JavaScript number is a record: Fin(v) for a finite value,    *)
(* NaN, or Infinity.  Finite values are fixed-point integers, the model's   *)
(* stand-in for the finite precision of IEEE doubles:                       *)
(*   - configuration values (elastic_modulus, yield_strength,               *)
(*     cross_section_area, net_span, num_strands, mass, fall_height) are    *)
(*     whole numbers of their unit: Pa, 1e-9 m^2, m, strands, 1e-7 kg, m;   *)
(*   - energies and stiffness coefficients are whole numbers of 1e-9 J and  *)
(*     1e-9 N/m, so that g = 9.81 is 981 hundredths and the tolerance 1e-6  *)
(*     is 1000 units;                                                       *)
(*   - deflections (left, right, mid, delta_max, max_deflection_limit) are  *)
(*     whole numbers of 1/Resolution m: the grid on which (left+right)/2    *)
(*     is rounded, as a double rounds it once the mantissa is used up;      *)
(*   - ratios (strain, strain_limit, max_deflection_ratio, safety_factor,   *)
(*     safety_factor_min) and max_stress are whole numbers of 1/Milli.      *)
(* Every division rounds down to the grid of its result.                    *)
(***************************************************************************)
EXTENDS Integers, Sequences, FiniteSets, TLC

VARIABLES config, results, last, analysed, other, solver, app

vars == <<config, results, last, analysed, other, solver, app>>

-----------------------------------------------------------------------------
(* Bounds of the model *)

Resolution == 8
Milli == 1000
MaxSpan == 2
MaxMass == 2
MaxFallHeight == 3

(* Program constants *)

g == 981
tolerance == 1000
maxIterations == 100
SampleCount == 100

-----------------------------------------------------------------------------
(* JavaScript numbers *)

Fin(v) == [t |-> "num", v |-> v]
NaN == [t |-> "NaN", v |-> 0]
Infinity == [t |-> "Infinity", v |-> 1]
NegInfinity == [t |-> "Infinity", v |-> -1]

IsFin(a) == a.t = "num"
IsNaN(a) == a.t = "NaN"
AnyNaN(S) == \E a \in S : IsNaN(a)

\* 0 for a finite number, 1 and -1 for the infinities
Rank(a) == IF IsFin(a) THEN 0 ELSE a.v

\* a < b, a <= b, a > b, a >= b of JavaScript: false as soon as one side is NaN
Lt(a, b) ==
    /\ ~IsNaN(a) /\ ~IsNaN(b)
    /\ \/ Rank(a) < Rank(b)
       \/ IsFin(a) /\ IsFin(b) /\ a.v < b.v
Le(a, b) ==
    /\ ~IsNaN(a) /\ ~IsNaN(b)
    /\ \/ Rank(a) < Rank(b)
       \/ IsFin(a) /\ IsFin(b) /\ a.v <= b.v
       \/ ~IsFin(a) /\ a = b
Gt(a, b) == Lt(b, a)
Ge(a, b) == Le(b, a)

\* Math.abs
Abs(a) == IF IsFin(a) /\ a.v < 0 THEN Fin(-a.v) ELSE a

\* Math.max(0, a) and Math.min(a, b): NaN as soon as one argument is NaN
Max0(a) == IF IsNaN(a) THEN NaN ELSE IF Lt(a, Fin(0)) THEN Fin(0) ELSE a
Min(a, b) == IF IsNaN(a) \/ IsNaN(b) THEN NaN ELSE IF Lt(b, a) THEN b ELSE a

\* !x of JavaScript for a number: true of 0 and of NaN
Falsy(a) == IsNaN(a) \/ (IsFin(a) /\ a.v = 0)

\* num / den of JavaScript on whole numbers, rounded down: x/0 is an infinity, 0/0 is NaN
Quo(num, den) ==
    IF den = 0
    THEN IF num = 0 THEN NaN ELSE IF num > 0 THEN Infinity ELSE NegInfinity
    ELSE IF den > 0 THEN Fin(num \div den) ELSE Fin((-num) \div (-den))

\* Math.sqrt on whole numbers, rounded down
RECURSIVE SqrtSearch(_, _, _)
SqrtSearch(x, lo, hi) ==
    IF hi - lo <= 1 THEN lo
    ELSE LET m == (lo + hi) \div 2
         IN IF m * m <= x THEN SqrtSearch(x, m, hi) ELSE SqrtSearch(x, lo, m)
ISqrt(x) == SqrtSearch(x, 0, 46340)

-----------------------------------------------------------------------------
(* Configurations *)

EmptyObj == [f \in {} |-> 0]

\* Math.sqrt(2 * 9.81 * h), in tenths of m/s
Velocity(h) ==
    IF IsFin(h) /\ h.v >= 0 THEN Fin(ISqrt(2 * g * h.v))
    ELSE IF h = Infinity THEN Infinity ELSE NaN

MakeConfig(E, Y, A, L, n, m, h) ==
    [scenario_name |-> "Custom Scenario",
     material |-> [name |-> "Custom Material",
                   elastic_modulus |-> E, yield_strength |-> Y,
                   density |-> Fin(1150),
                   cross_section_area |-> A, strain_limit |-> Fin(Milli \div 10)],
     geometry |-> [net_span |-> L, num_strands |-> n,
                   installation_angle |-> Fin(0),
                   safety_factor_min |-> Fin(2 * Milli),
                   max_deflection_ratio |-> Fin((15 * Milli) \div 100)],
     impact |-> [mass |-> m, fall_height |-> h, impact_velocity |-> Velocity(h)],
     analysis |-> [analysis_type |-> "impact",
                   max_iterations |-> Fin(100),
                   convergence_tolerance |-> Fin(1000),
                   include_damping |-> FALSE,
                   damping_ratio |-> Fin(Milli \div 20)]]

\* The configuration the constructor falls back on, its magnitudes brought
\* down to the model's units (the three limits are the source's: 0.1, 2.0, 0.15)
getDefaultConfig == MakeConfig(Fin(1000), Fin(100), Fin(12), Fin(MaxSpan), Fin(1), Fin(1), Fin(MaxFallHeight))

ElasticModulusValues == {Fin(0), Fin(1000)}
YieldStrengthValues == {NaN, Fin(100)}
\* not a number, negative, zero, and positive: a slack net and a very stiff one
AreaValues == {NaN, Fin(-4), Fin(0), Fin(12), Fin(512)}
NetSpanValues == {Fin(-1)} \cup {Fin(l) : l \in 1..MaxSpan}
NumStrandsValues == {Fin(0), Fin(1)}
MassValues == {Fin(m) : m \in 0..MaxMass}
FallHeightValues == {Fin(h) : h \in 0..MaxFallHeight}

Configs ==
    {MakeConfig(E, Y, A, L, n, m, h) :
        E \in ElasticModulusValues, Y \in YieldStrengthValues, A \in AreaValues,
        L \in NetSpanValues, n \in NumStrandsValues, m \in MassValues,
        h \in FallHeightValues}

-----------------------------------------------------------------------------
(* validateConfig *)

\* Mutant of Violated: the !x half of the test is dropped
ViolatedWithoutFalsy(x) == Le(x, Fin(0))

\* !x || x <= 0
Violated(x) == Falsy(x) \/ Le(x, Fin(0))

ErrorIf(cond, msg) == IF cond THEN <<msg>> ELSE <<>>

\* Mutant of validateConfig: it returns at the first violation it finds
validateConfigFirstOnly(cfg) ==
    IF Violated(cfg.material.elastic_modulus) THEN <<"Material elastic modulus must be positive">>
    ELSE IF Violated(cfg.material.yield_strength) THEN <<"Material yield strength must be positive">>
    ELSE IF Violated(cfg.geometry.net_span) THEN <<"Net span must be positive">>
    ELSE IF Violated(cfg.geometry.num_strands) THEN <<"Number of strands must be positive">>
    ELSE IF Violated(cfg.impact.mass) THEN <<"Impact mass must be positive">>
    ELSE IF Violated(cfg.impact.fall_height) THEN <<"Fall height must be positive">>
    ELSE <<>>

validateConfig(cfg) ==
    ErrorIf(Violated(cfg.material.elastic_modulus), "Material elastic modulus must be positive")
    \o ErrorIf(Violated(cfg.material.yield_strength), "Material yield strength must be positive")
    \o ErrorIf(Violated(cfg.geometry.net_span), "Net span must be positive")
    \o ErrorIf(Violated(cfg.geometry.num_strands), "Number of strands must be positive")
    \o ErrorIf(Violated(cfg.impact.mass), "Impact mass must be positive")
    \o ErrorIf(Violated(cfg.impact.fall_height), "Fall height must be positive")

-----------------------------------------------------------------------------
(* _calculateStiffnessCoefficients *)

\* theta = atan(delta_est / (net_span / 2)) with delta_est = 0.1 * net_span, so
\* tan(theta) = 1/5 whatever the span: cos^2 = 25/26, sin^2 = 1/26, and sin
\* (1/sqrt(26)) is taken as 10/51.
Coefficient(cfg, num, den) ==
    LET material == cfg.material
        geometry == cfg.geometry
    IN IF AnyNaN({geometry.num_strands, material.elastic_modulus,
                  material.cross_section_area, geometry.net_span})
       THEN NaN
       ELSE Quo(geometry.num_strands.v * material.elastic_modulus.v
                    * material.cross_section_area.v * num, den)

calculateStiffnessCoefficients(cfg) ==
    LET L == cfg.geometry.net_span.v
    IN [k1 |-> Coefficient(cfg, 25, L * 26),
        k2 |-> Coefficient(cfg, 250, L * L * 1326),
        k3 |-> Coefficient(cfg, 25, L * L * L * 676)]

-----------------------------------------------------------------------------
(* _calculateMaxDeflection *)

\* Mutant of ImpactEnergy: the kinetic energy 0.5 * mass * impact_velocity**2
\* stands for mass * g * fall_height
ImpactEnergyFromVelocity(cfg) ==
    IF AnyNaN({cfg.impact.mass, cfg.impact.impact_velocity}) THEN NaN
    ELSE Fin((cfg.impact.mass.v * cfg.impact.impact_velocity.v
                  * cfg.impact.impact_velocity.v) \div 2)

\* impact.mass * this.g * impact.fall_height, in energy units
ImpactEnergy(cfg) ==
    IF AnyNaN({cfg.impact.mass, cfg.impact.fall_height}) THEN NaN
    ELSE Fin(cfg.impact.mass.v * g * cfg.impact.fall_height.v)

\* energyEquation(delta), delta on the deflection grid
energyEquation(cfg, k, delta) ==
    IF AnyNaN({k.k1, k.k2, k.k3, ImpactEnergy(cfg)}) THEN NaN
    ELSE Fin((k.k1.v * delta * delta) \div (2 * Resolution * Resolution)
             + (k.k2.v * delta * delta * delta) \div (3 * Resolution * Resolution * Resolution)
             + (k.k3.v * delta * delta * delta * delta)
                   \div (4 * Resolution * Resolution * Resolution * Resolution)
             - ImpactEnergy(cfg).v)

\* (left + right) / 2 on the deflection grid, a tie rounded to the even neighbour
Midpoint(left, right) ==
    LET s == left + right
        q == s \div 2
    IN IF s % 2 = 0 \/ q % 2 = 0 THEN q ELSE q + 1

\* Mutant of LoopContinues: the bound is tested with <=
LoopContinuesOneMore(i) == i <= maxIterations

\* for (let i = 0; i < maxIterations; i++)
LoopContinues(i) == i < maxIterations

\* Math.abs(f_mid) < tolerance
WithinTolerance(f_mid) == Lt(Abs(f_mid), Fin(tolerance))

\* The value returned after the loop:
\* Math.min(impact.mass * this.g * impact.fall_height / k1, geometry.net_span * 0.5)
Fallback(cfg, k) ==
    LET e == ImpactEnergy(cfg)
        half == Fin((cfg.geometry.net_span.v * Resolution) \div 2)
    IN IF IsNaN(e) \/ IsNaN(k.k1) THEN NaN
       ELSE Min(Quo(e.v * Resolution, k.k1.v), half)

\* The iteration that follows iteration i.  An iteration that returns nothing
\* and leaves left and right as they were is repeated unchanged by every later
\* one, so the loop is then taken straight to its last test.
NextIteration(i, unchanged) ==
    IF unchanged /\ i + 1 < maxIterations THEN maxIterations ELSE i + 1

\* The bisection loop from iteration i on.  The record carries the value the
\* function returns and, beside it, how the loop was left, the number of
\* iterations run and the last midpoint tried.
RECURSIVE Bisect(_, _, _, _, _, _)
Bisect(cfg, k, left, right, i, prev_mid) ==
    IF ~LoopContinues(i)
    THEN [value |-> Fallback(cfg, k), exit |-> "exhausted", steps |-> i,
          last_mid |-> prev_mid]
    ELSE LET mid == Midpoint(left, right)
             f_mid == energyEquation(cfg, k, mid)
         IN IF WithinTolerance(f_mid)
            THEN [value |-> Max0(Fin(mid)), exit |-> "converged", steps |-> i + 1,
                  last_mid |-> mid]
            ELSE IF Gt(f_mid, Fin(0))
                 THEN Bisect(cfg, k, left, mid, NextIteration(i, mid = right), mid)
                 ELSE Bisect(cfg, k, mid, right, NextIteration(i, mid = left), mid)

calculateMaxDeflection(cfg, k) ==
    Bisect(cfg, k, 0, (cfg.geometry.net_span.v * Resolution) \div 2, 0, 0)

-----------------------------------------------------------------------------
(* Stress, strain, safety factor, design checks *)

\* (Math.sqrt(net_span**2 + delta_max**2) - net_span) / net_span, in 1/Milli
StrainOf(cfg, delta_max) ==
    LET L == cfg.geometry.net_span
    IN IF IsNaN(L) \/ IsNaN(delta_max) THEN NaN
       ELSE LET span == L.v * Milli
                d == (delta_max.v * Milli) \div Resolution
                hyp == ISqrt(span * span + d * d)
            IN Quo((hyp - span) * Milli, span)

calculateMaxStress(cfg, delta_max) ==
    LET strain == StrainOf(cfg, delta_max)
        E == cfg.material.elastic_modulus
    IN IF IsNaN(strain) \/ IsNaN(E) THEN NaN
       ELSE IF IsFin(strain) THEN Fin(E.v * strain.v) ELSE strain

\* sigma_max > 0 ? material.yield_strength / sigma_max : Infinity
SafetyFactor(cfg, sigma_max) ==
    LET Y == cfg.material.yield_strength
    IN IF Gt(sigma_max, Fin(0))
       THEN IF IsNaN(Y) THEN NaN
            ELSE IF IsFin(sigma_max) THEN Quo(Y.v * Milli * Milli, sigma_max.v)
            ELSE Fin(0)
       ELSE Infinity

\* geometry.max_deflection_ratio * geometry.net_span, on the deflection grid
MaxDeflectionLimit(cfg) ==
    LET geometry == cfg.geometry
    IN IF AnyNaN({geometry.max_deflection_ratio, geometry.net_span}) THEN NaN
       ELSE Fin((geometry.max_deflection_ratio.v * geometry.net_span.v * Resolution)
                    \div Milli)

\* Mutant of DesignChecks: overall_safe leaves the deflection check out
DesignChecksWithoutDeflection(cfg, delta_max, safety_factor, strain) ==
    [deflection_ok |-> Le(delta_max, MaxDeflectionLimit(cfg)),
     stress_ok |-> Ge(safety_factor, cfg.geometry.safety_factor_min),
     strain_ok |-> Le(strain, cfg.material.strain_limit),
     overall_safe |-> /\ Ge(safety_factor, cfg.geometry.safety_factor_min)
                      /\ Le(strain, cfg.material.strain_limit)]

\* Mutant of DesignChecks: the stress check compares the wrong way round
\* (safety_factor <= safety_factor_min)
DesignChecksStressReversed(cfg, delta_max, safety_factor, strain) ==
    [deflection_ok |-> Le(delta_max, MaxDeflectionLimit(cfg)),
     stress_ok |-> Le(safety_factor, cfg.geometry.safety_factor_min),
     strain_ok |-> Le(strain, cfg.material.strain_limit),
     overall_safe |-> /\ Le(delta_max, MaxDeflectionLimit(cfg))
                      /\ Le(safety_factor, cfg.geometry.safety_factor_min)
                      /\ Le(strain, cfg.material.strain_limit)]

DesignChecks(cfg, delta_max, safety_factor, strain) ==
    [deflection_ok |-> Le(delta_max, MaxDeflectionLimit(cfg)),
     stress_ok |-> Ge(safety_factor, cfg.geometry.safety_factor_min),
     strain_ok |-> Le(strain, cfg.material.strain_limit),
     overall_safe |-> /\ Le(delta_max, MaxDeflectionLimit(cfg))
                      /\ Ge(safety_factor, cfg.geometry.safety_factor_min)
                      /\ Le(strain, cfg.material.strain_limit)]

\* The object analyze stores in this.results and returns
AnalysisResults(cfg, k, delta_max) ==
    LET sigma_max == calculateMaxStress(cfg, delta_max)
        safety_factor == SafetyFactor(cfg, sigma_max)
        strain == StrainOf(cfg, delta_max)
    IN [scenario_name |-> cfg.scenario_name,
        input_parameters |-> cfg,
        structural_response |-> [max_deflection |-> delta_max,
                                 max_stress |-> sigma_max,
                                 safety_factor |-> safety_factor,
                                 strain |-> strain],
        design_limits |-> [max_deflection_limit |-> MaxDeflectionLimit(cfg),
                           min_safety_factor |-> cfg.geometry.safety_factor_min,
                           max_strain_limit |-> cfg.material.strain_limit],
        design_checks |-> DesignChecks(cfg, delta_max, safety_factor, strain),
        stiffness_coefficients |-> k]

-----------------------------------------------------------------------------
(* generatePlots *)

\* this.results.structural_response is set
HasResponse(r) == "structural_response" \in DOMAIN r

Null == [null |-> TRUE]

\* Plotted deflections are whole numbers of 1/PlotResolution m, the grid on
\* which net_span * 0.3 * i / 99 is exact for every i
PlotResolution == 10 * (SampleCount - 1) * Resolution

\* A deflection of the deflection grid, on the plot's grid
ToPlot(delta) == IF IsFin(delta) THEN Fin(delta.v * 10 * (SampleCount - 1)) ELSE delta

\* Mutant of SampleAt: the step is a hundredth of the range, not a 99th
SampleAtHundredths(cfg, i) ==
    LET L == cfg.geometry.net_span
    IN IF IsNaN(L) THEN NaN
       ELSE Fin((L.v * 3 * i * Resolution * (SampleCount - 1)) \div SampleCount)

\* geometry.net_span * 0.3 * i / 99
SampleAt(cfg, i) ==
    LET L == cfg.geometry.net_span
    IN IF IsNaN(L) THEN NaN ELSE Fin(L.v * 3 * i * Resolution)

\* Array.from({length: 100}, (_, i) => ...)
DeltaRange(cfg) == [j \in 1..SampleCount |-> SampleAt(cfg, j - 1)]

\* a * delta for delta on the plot's grid
Times(a, delta) == (a * delta) \div PlotResolution

\* k1 * delta + k2 * delta**2 + k3 * delta**3 (NaN as soon as a coefficient
\* or delta is not a finite number: the coefficients of the configurations
\* plotted are finite or NaN)
ForceAt(k, delta) ==
    IF IsFin(k.k1) /\ IsFin(k.k2) /\ IsFin(k.k3) /\ IsFin(delta)
    THEN Fin(Times(k.k1.v, delta.v)
             + Times(Times(k.k2.v, delta.v), delta.v)
             + Times(Times(Times(k.k3.v, delta.v), delta.v), delta.v))
    ELSE NaN

createForceDeflectionPlot(cfg, res) ==
    LET k == calculateStiffnessCoefficients(cfg)
        delta_range == DeltaRange(cfg)
        force_range == [j \in 1..SampleCount |-> ForceAt(k, delta_range[j])]
        curve == [x |-> delta_range, y |-> force_range, mode |-> "lines",
                  name |-> "Force-Deflection Curve"]
    IN IF HasResponse(res)
       THEN LET delta_max == ToPlot(res.structural_response.max_deflection)
                force_max == ForceAt(k, delta_max)
            IN [data |-> <<curve,
                           [x |-> <<delta_max>>, y |-> <<force_max>>, mode |-> "markers",
                            name |-> "Maximum Deflection"]>>,
                title |-> "Force-Deflection Curve"]
       ELSE [data |-> <<curve>>, title |-> "Force-Deflection Curve"]

\* Mutant of createSafetyFactorChart: no chart unless the stored result is
\* that of the current configuration
createSafetyFactorChartOfCurrent(cfg, res) ==
    IF ~HasResponse(res) \/ res.input_parameters # cfg THEN Null
    ELSE LET safety_factor == res.structural_response.safety_factor
             min_safety == cfg.geometry.safety_factor_min
         IN [data |-> <<[x |-> <<"Safety Factor">>, y |-> <<safety_factor>>,
                         color |-> IF Ge(safety_factor, min_safety) THEN "green" ELSE "red"]>>,
             min_safety |-> min_safety,
             title |-> "Safety Factor Analysis"]

createSafetyFactorChart(cfg, res) ==
    IF ~HasResponse(res) THEN Null
    ELSE LET safety_factor == res.structural_response.safety_factor
             min_safety == cfg.geometry.safety_factor_min
         IN [data |-> <<[x |-> <<"Safety Factor">>, y |-> <<safety_factor>>,
                         color |-> IF Ge(safety_factor, min_safety) THEN "green" ELSE "red"]>>,
             min_safety |-> min_safety,
             title |-> "Safety Factor Analysis"]

\* Math.random(): a number of [0, 1), in 1/Milli
RandomValues == {0, Milli \div 2, Milli - 1}

\* The length Array.from gives an array asked for {length: n}
StrandCount(n) == IF IsFin(n) /\ n.v > 0 THEN n.v ELSE 0

\* max_stress * (1 + (Math.random() - 0.5) * 0.2) for the outcome r of Math.random()
Scattered(max_stress, r) ==
    IF IsFin(max_stress) THEN Fin((max_stress.v * (9 * Milli + 2 * r)) \div (10 * Milli))
    ELSE max_stress

\* yield_strength * 1.2, in the unit of max_stress
StressCap(yield_strength) ==
    IF IsFin(yield_strength) THEN Fin((yield_strength.v * Milli * 12) \div 10)
    ELSE yield_strength

\* Math.min(Math.max(stress, 0), yield_strength * 1.2)
StrandStress(max_stress, yield_strength, r) ==
    Min(Max0(Scattered(max_stress, r)), StressCap(yield_strength))

\* random holds the outcomes of Math.random(), one per strand.  x is
\* stress_distribution.map(s => s / 1e6): the same whole numbers, of a unit
\* 1e6 times the unit of max_stress.
createStressDistributionPlot(cfg, res, random) ==
    IF ~HasResponse(res) THEN Null
    ELSE LET max_stress == res.structural_response.max_stress
             yield_strength == cfg.material.yield_strength
             num_strands == cfg.geometry.num_strands
             stress_distribution ==
                 [j \in 1..StrandCount(num_strands) |->
                     StrandStress(max_stress, yield_strength, random[j])]
         IN [data |-> <<[x |-> stress_distribution, name |-> "Stress Distribution"]>>,
             yield_line |-> yield_strength,
             title |-> "Stress Distribution Across Net Strands"]

\* time_range is 2 * i / 99, in 1/99 s; deflection_response is delta_max times
\* (1 - exp(-5t)) * exp(-0.5t), a factor that depends on t alone, and is kept
\* as its amplitude delta_max
createDeflectionTimePlot(res) ==
    IF ~HasResponse(res) THEN Null
    ELSE LET delta_max == res.structural_response.max_deflection
         IN [data |-> <<[x |-> [j \in 1..SampleCount |-> 2 * (j - 1)],
                         amplitude |-> delta_max, name |-> "Deflection Response"]>>,
             title |-> "Deflection vs Time (Dynamic Response)"]

generatePlots(cfg, res, random) ==
    [force_deflection |-> createForceDeflectionPlot(cfg, res),
     safety_factor |-> createSafetyFactorChart(cfg, res),
     stress_distribution |-> createStressDistributionPlot(cfg, res, random),
     deflection_time |-> createDeflectionTimePlot(res)]

\* The outcomes of the calls of Math.random() one generatePlots makes
RandomDraws(cfg, res) ==
    IF HasResponse(res)
    THEN [1..StrandCount(cfg.geometry.num_strands) -> RandomValues]
    ELSE {<<>>}

-----------------------------------------------------------------------------
(* The analyzer: its state and its methods *)

\* `${errors.join(', ')}` after the prefix: the messages, in order
ErrorMessage(errors) == [prefix |-> "Configuration errors: ", parts |-> errors]

NoSolve == [exit |-> "none", steps |-> 0, last_mid |-> 0]

\* What the last call did: the method, how it ended, what it threw or
\* returned, which helpers it ran, and how the solver loop was left.
Record(op, outcome, error, returned, computed, solve) ==
    [op |-> op, outcome |-> outcome, error |-> error, returned |-> returned,
     computed |-> computed, solve |-> solve, again |-> FALSE]

\* The call before this one was an analyze that returned, and the
\* configuration has not been replaced since
Repeats == last.op = "analyze" /\ last.outcome = "returned"

\* An analyzer as the constructor leaves it
NewAnalyzer(c) ==
    [config |-> c, results |-> EmptyObj,
     last |-> Record("constructor", "returned", ErrorMessage(<<>>), <<>>, {}, NoSolve)]

\* The useState values of App before it is mounted (lines 438-442)
AppUnmounted ==
    [currentConfig |-> Null, analysisResults |-> Null, plots |-> Null, loading |-> FALSE,
     activeTab |-> "configuration", localConfig |-> Null, running |-> "none",
     alert |-> "none"]

\* No call of _calculateMaxDeflection is under way
SolverIdle == [pc |-> "idle", left |-> 0, right |-> 0, i |-> 0, value |-> NaN]

Init ==
    /\ config \in Configs \cup {getDefaultConfig}
    /\ results = EmptyObj
    /\ last = Record("constructor", "returned", ErrorMessage(<<>>), <<>>, {}, NoSolve)
    /\ analysed = FALSE
    /\ other = NewAnalyzer(getDefaultConfig)
    /\ solver = SolverIdle
    /\ app = AppUnmounted

updateConfig(c) ==
    /\ config' = c
    /\ last' = Record("updateConfig", "returned", ErrorMessage(<<>>), <<>>, {}, NoSolve)
    /\ UNCHANGED <<results, analysed, other>>

\* Mutant of ValidateConfig: a configuration with violations is replaced by
\* the default one
ValidateConfigRepairing ==
    /\ last' = Record("validateConfig", "returned", ErrorMessage(<<>>),
                      validateConfig(config), {}, NoSolve)
    /\ config' = IF Len(validateConfig(config)) > 0 THEN getDefaultConfig ELSE config
    /\ UNCHANGED <<results, analysed, other>>

ValidateConfig ==
    /\ last' = Record("validateConfig", "returned", ErrorMessage(<<>>),
                      validateConfig(config), {}, NoSolve)
    /\ UNCHANGED <<config, results, analysed, other>>

ShouldThrow(errors) == Len(errors) > 0

\* Mutant of analyze: this.results is emptied before the configuration is
\* validated
analyzeClearingFirst ==
    LET errors == validateConfig(config)
    IN IF ShouldThrow(errors)
       THEN /\ results' = EmptyObj
            /\ last' = Record("analyze", "threw", ErrorMessage(errors), <<>>, {}, NoSolve)
            /\ UNCHANGED <<config, analysed, other>>
       ELSE LET k == calculateStiffnessCoefficients(config)
                solved == calculateMaxDeflection(config, k)
                r == AnalysisResults(config, k, solved.value)
            IN /\ results' = r
               /\ last' = [Record("analyze", "returned", ErrorMessage(<<>>), <<>>,
                                  {"stiffness", "deflection", "stress", "design_checks"},
                                  [exit |-> solved.exit, steps |-> solved.steps,
                                   last_mid |-> solved.last_mid])
                           EXCEPT !.again = Repeats]
               /\ analysed' = TRUE
               /\ UNCHANGED <<config, other>>

\* Mutant of analyze: the solver starts from the bracket [0, max_deflection]
\* of the result stored by the call before
analyzeFromStoredBracket ==
    LET errors == validateConfig(config)
        stored == "structural_response" \in DOMAIN results
                      /\ Gt(results.structural_response.max_deflection, Fin(0))
    IN IF ShouldThrow(errors)
       THEN /\ last' = Record("analyze", "threw", ErrorMessage(errors), <<>>, {}, NoSolve)
            /\ UNCHANGED <<config, results, analysed, other>>
       ELSE LET k == calculateStiffnessCoefficients(config)
                solved == IF stored
                          THEN Bisect(config, k, 0,
                                      results.structural_response.max_deflection.v, 0, 0)
                          ELSE calculateMaxDeflection(config, k)
                r == AnalysisResults(config, k, solved.value)
            IN /\ results' = r
               /\ last' = [Record("analyze", "returned", ErrorMessage(<<>>), <<>>,
                                  {"stiffness", "deflection", "stress", "design_checks"},
                                  [exit |-> solved.exit, steps |-> solved.steps,
                                   last_mid |-> solved.last_mid])
                           EXCEPT !.again = Repeats]
               /\ analysed' = TRUE
               /\ UNCHANGED <<config, other>>

analyze ==
    LET errors == validateConfig(config)
    IN IF ShouldThrow(errors)
       THEN /\ last' = Record("analyze", "threw", ErrorMessage(errors), <<>>, {}, NoSolve)
            /\ UNCHANGED <<config, results, analysed, other>>
       ELSE LET k == calculateStiffnessCoefficients(config)
                solved == calculateMaxDeflection(config, k)
                r == AnalysisResults(config, k, solved.value)
            IN /\ results' = r
               /\ last' = [Record("analyze", "returned", ErrorMessage(<<>>), <<>>,
                                  {"stiffness", "deflection", "stress", "design_checks"},
                                  [exit |-> solved.exit, steps |-> solved.steps,
                                   last_mid |-> solved.last_mid])
                           EXCEPT !.again = Repeats]
               /\ analysed' = TRUE
               /\ UNCHANGED <<config, other>>

\* The configurations a caller passes to updateConfig: the current one with
\* another cross-section area, span, mass or fall height
Replacements(c) ==
    {[c EXCEPT !.material.cross_section_area = A] : A \in AreaValues}
    \cup {[c EXCEPT !.geometry.net_span = L] : L \in NetSpanValues}
    \cup {[c EXCEPT !.impact.mass = m] : m \in MassValues}
    \cup {[c EXCEPT !.impact.fall_height = h, !.impact.impact_velocity = Velocity(h)] :
              h \in FallHeightValues}

GeneratePlots ==
    /\ \E random \in RandomDraws(config, results) :
           last' = Record("generatePlots", "returned", ErrorMessage(<<>>),
                          generatePlots(config, results, random), {}, NoSolve)
    /\ UNCHANGED <<config, results, analysed, other>>

\* A call on the analyzer leaves the solver taken by itself and the App alone
AnalyzerOnly == UNCHANGED <<solver, app>>

Next ==
    \/ \E c \in Replacements(config) : updateConfig(c) /\ AnalyzerOnly
    \/ ValidateConfig /\ AnalyzerOnly
    \/ analyze /\ AnalyzerOnly

Spec == Init /\ [][Next]_vars

-----------------------------------------------------------------------------
(* The analyzer with its plots, on configurations that vary the values the
   plots read and the solver settings of the analysis section *)

PlotConfig == MakeConfig(Fin(1000), Fin(100), Fin(12), Fin(1), Fin(1), Fin(1), Fin(2))

PlotReplacements(c) ==
    {[c EXCEPT !.material.yield_strength = Y] : Y \in {Fin(-100), Fin(100)}}
    \cup {[c EXCEPT !.material.cross_section_area = A] : A \in {NaN, Fin(12)}}
    \cup {[c EXCEPT !.geometry.net_span = L] : L \in {Fin(1), Fin(2)}}
    \cup {[c EXCEPT !.geometry.num_strands = n] : n \in {Fin(0), Fin(1), Fin(2)}}
    \cup {[c EXCEPT !.impact.fall_height = h, !.impact.impact_velocity = Velocity(h)] :
              h \in {Fin(2), Fin(3)}}
    \cup {[c EXCEPT !.analysis.max_iterations = n] : n \in {Fin(10), Fin(100)}}

InitPlots ==
    /\ config = PlotConfig
    /\ results = EmptyObj
    /\ last = Record("constructor", "returned", ErrorMessage(<<>>), <<>>, {}, NoSolve)
    /\ analysed = FALSE
    /\ other = NewAnalyzer(getDefaultConfig)
    /\ solver = SolverIdle
    /\ app = AppUnmounted

NextPlots ==
    \/ \E c \in PlotReplacements(config) : updateConfig(c) /\ AnalyzerOnly
    \/ analyze /\ AnalyzerOnly
    \/ GeneratePlots /\ AnalyzerOnly

SpecPlots == InitPlots /\ [][NextPlots]_vars

-----------------------------------------------------------------------------
(* The analyzer on configurations that vary the fields no method reads *)

InertReplacements(c) ==
    {[c EXCEPT !.scenario_name = name] : name \in {"Custom Scenario", "Renamed Scenario"}}
    \cup {[c EXCEPT !.material.density = d] : d \in {Fin(1150), Fin(7850)}}
    \cup {[c EXCEPT !.geometry.installation_angle = a] : a \in {Fin(0), Fin(30)}}
    \cup {[c EXCEPT !.impact.impact_velocity = v] : v \in {Velocity(Fin(2)), Fin(0)}}
    \cup {[c EXCEPT !.analysis.include_damping = b] : b \in BOOLEAN}
    \cup {[c EXCEPT !.analysis.damping_ratio = r] : r \in {Fin(Milli \div 20), Fin(Milli \div 2)}}
    \cup {[c EXCEPT !.impact.fall_height = h] : h \in {Fin(0), Fin(2), Fin(3)}}

InitInert ==
    /\ config = PlotConfig
    /\ results = EmptyObj
    /\ last = Record("constructor", "returned", ErrorMessage(<<>>), <<>>, {}, NoSolve)
    /\ analysed = FALSE
    /\ other = NewAnalyzer(getDefaultConfig)
    /\ solver = SolverIdle
    /\ app = AppUnmounted

NextInert ==
    \/ \E c \in InertReplacements(config) : updateConfig(c) /\ AnalyzerOnly
    \/ analyze /\ AnalyzerOnly

SpecInert == InitInert /\ [][NextInert]_vars

-----------------------------------------------------------------------------
(* Two analyzers, their calls interleaved in any order *)

OtherConfig == MakeConfig(Fin(1000), Fin(100), Fin(12), Fin(1), Fin(1), Fin(1), Fin(3))

\* The configurations a caller passes to updateConfig of either analyzer
MassReplacements(c) == {[c EXCEPT !.impact.mass = m] : m \in MassValues}

otherUpdateConfig(c) ==
    /\ other' = [other EXCEPT !.config = c,
                              !.last = Record("updateConfig", "returned", ErrorMessage(<<>>),
                                              <<>>, {}, NoSolve)]
    /\ UNCHANGED <<config, results, last, analysed>>

\* Mutant of otherAnalyze: the result is stored where both analyzers read it
otherAnalyzeSharedResults ==
    LET errors == validateConfig(other.config)
    IN IF ShouldThrow(errors)
       THEN /\ other' = [other EXCEPT !.last = Record("analyze", "threw", ErrorMessage(errors),
                                                      <<>>, {}, NoSolve)]
            /\ UNCHANGED <<config, results, last, analysed>>
       ELSE LET k == calculateStiffnessCoefficients(other.config)
                solved == calculateMaxDeflection(other.config, k)
                r == AnalysisResults(other.config, k, solved.value)
            IN /\ other' = [other EXCEPT
                               !.results = r,
                               !.last = Record("analyze", "returned", ErrorMessage(<<>>), <<>>,
                                               {"stiffness", "deflection", "stress",
                                                "design_checks"},
                                               [exit |-> solved.exit, steps |-> solved.steps,
                                                last_mid |-> solved.last_mid])]
               /\ results' = r
               /\ UNCHANGED <<config, last, analysed>>

otherAnalyze ==
    LET errors == validateConfig(other.config)
    IN IF ShouldThrow(errors)
       THEN /\ other' = [other EXCEPT !.last = Record("analyze", "threw", ErrorMessage(errors),
                                                      <<>>, {}, NoSolve)]
            /\ UNCHANGED <<config, results, last, analysed>>
       ELSE LET k == calculateStiffnessCoefficients(other.config)
                solved == calculateMaxDeflection(other.config, k)
                r == AnalysisResults(other.config, k, solved.value)
            IN /\ other' = [other EXCEPT
                               !.results = r,
                               !.last = Record("analyze", "returned", ErrorMessage(<<>>), <<>>,
                                               {"stiffness", "deflection", "stress",
                                                "design_checks"},
                                               [exit |-> solved.exit, steps |-> solved.steps,
                                                last_mid |-> solved.last_mid])]
               /\ UNCHANGED <<config, results, last, analysed>>

otherGeneratePlots ==
    /\ \E random \in RandomDraws(other.config, other.results) :
           other' = [other EXCEPT
                        !.last = Record("generatePlots", "returned", ErrorMessage(<<>>),
                                        generatePlots(other.config, other.results, random),
                                        {}, NoSolve)]
    /\ UNCHANGED <<config, results, last, analysed>>

InitTwo ==
    /\ config = PlotConfig
    /\ results = EmptyObj
    /\ last = Record("constructor", "returned", ErrorMessage(<<>>), <<>>, {}, NoSolve)
    /\ analysed = FALSE
    /\ other = NewAnalyzer(OtherConfig)
    /\ solver = SolverIdle
    /\ app = AppUnmounted

\* The calls on the first analyzer
NextOwn ==
    \/ \E c \in MassReplacements(config) : updateConfig(c)
    \/ analyze
    \/ GeneratePlots

NextTwo ==
    \/ \E c \in MassReplacements(config) : updateConfig(c) /\ AnalyzerOnly
    \/ analyze /\ AnalyzerOnly
    \/ GeneratePlots /\ AnalyzerOnly
    \/ \E c \in MassReplacements(other.config) : otherUpdateConfig(c) /\ AnalyzerOnly
    \/ otherAnalyze /\ AnalyzerOnly
    \/ otherGeneratePlots /\ AnalyzerOnly

SpecTwo == InitTwo /\ [][NextTwo]_vars

-----------------------------------------------------------------------------
(* _calculateMaxDeflection, its loop taken one iteration at a time *)

\* geometry.net_span * 0.5, on the deflection grid
HalfSpan(cfg) == (cfg.geometry.net_span.v * Resolution) \div 2

\* Mutant of NarrowBracket: the halves are taken the wrong way round
NarrowBracketReversed(lo, hi, mid, f_mid) ==
    IF Gt(f_mid, Fin(0)) THEN [left |-> mid, right |-> hi] ELSE [left |-> lo, right |-> mid]

\* if (f_mid > 0) { right = mid } else { left = mid }
NarrowBracket(lo, hi, mid, f_mid) ==
    IF Gt(f_mid, Fin(0)) THEN [left |-> lo, right |-> mid] ELSE [left |-> mid, right |-> hi]

\* The configurations analyze calls the solver with: those that pass validation
SolverConfigs == {c \in Configs : ~ShouldThrow(validateConfig(c))}

\* energyEquation on the coefficients analyze passes to the solver
SolverEnergy(delta) ==
    energyEquation(config, calculateStiffnessCoefficients(config), delta)

\* let left = 0; let right = geometry.net_span * 0.5; i = 0
InitSolver ==
    /\ config \in SolverConfigs
    /\ results = EmptyObj
    /\ last = Record("constructor", "returned", ErrorMessage(<<>>), <<>>, {}, NoSolve)
    /\ analysed = FALSE
    /\ other = NewAnalyzer(getDefaultConfig)
    /\ solver = [pc |-> "loop", left |-> 0, right |-> HalfSpan(config), i |-> 0, value |-> NaN]
    /\ app = AppUnmounted

\* An iteration that returns: return Math.max(0, mid)
Converge ==
    LET mid == Midpoint(solver.left, solver.right)
    IN /\ solver.pc = "loop" /\ LoopContinues(solver.i)
       /\ WithinTolerance(SolverEnergy(mid))
       /\ solver' = [solver EXCEPT !.pc = "returned", !.value = Max0(Fin(mid))]
       /\ UNCHANGED <<config, results, last, analysed, other, app>>

\* An iteration that goes on: left or right becomes mid, i++
Narrow ==
    LET mid == Midpoint(solver.left, solver.right)
        f_mid == SolverEnergy(mid)
        bracket == NarrowBracket(solver.left, solver.right, mid, f_mid)
    IN /\ solver.pc = "loop" /\ LoopContinues(solver.i)
       /\ ~WithinTolerance(f_mid)
       /\ solver' = [solver EXCEPT !.left = bracket.left, !.right = bracket.right,
                                   !.i = @ + 1]
       /\ UNCHANGED <<config, results, last, analysed, other, app>>

\* The loop is left at i = maxIterations: the fallback is returned
Exhaust ==
    /\ solver.pc = "loop" /\ ~LoopContinues(solver.i)
    /\ solver' = [solver EXCEPT
                      !.pc = "returned",
                      !.value = Fallback(config, calculateStiffnessCoefficients(config))]
    /\ UNCHANGED <<config, results, last, analysed, other, app>>

NextSolver == Converge \/ Narrow \/ Exhaust

SpecSolver == InitSolver /\ [][NextSolver]_vars

-----------------------------------------------------------------------------
(* The analyzer and the objects its caller holds.  analyze returns
   this.results itself and stores the caller's config object itself as
   this.config and as results.input_parameters, so a write the caller makes
   through a reference it holds is a write to the analyzer's object. *)

\* The values a caller writes into the max_deflection of a result it holds
WrittenDeflections == {Fin(0), Fin(Resolution)}

\* The caller writes structural_response.max_deflection of the object the
\* last analyze returned: return this.results hands out the stored object
CallerWritesResult(d) ==
    /\ HasResponse(results)
    /\ results' = [results EXCEPT !.structural_response.max_deflection = d]
    /\ last' = Record("callerWritesResult", "returned", ErrorMessage(<<>>), <<>>, {}, NoSolve)
    /\ UNCHANGED <<config, analysed, other>>

\* The caller writes impact.mass of the config object it passed in, right
\* after an analyze of it returned: this.config and results.input_parameters
\* are that object
CallerWritesConfig(c) ==
    /\ last.op = "analyze" /\ last.outcome = "returned"
    /\ config' = c
    /\ results' = [results EXCEPT !.input_parameters = c]
    /\ last' = Record("callerWritesConfig", "returned", ErrorMessage(<<>>), <<>>, {}, NoSolve)
    /\ UNCHANGED <<analysed, other>>

\* !this.results: true of null and of undefined, false of every object, the
\* empty one of the constructor too
Missing(r) == r = Null

\* generateReportData: analyze first if (!this.results), then the report data
\* (its timestamp left out)
GenerateReportData ==
    LET errors == validateConfig(config)
        k == calculateStiffnessCoefficients(config)
        res == IF Missing(results)
               THEN AnalysisResults(config, k, calculateMaxDeflection(config, k).value)
               ELSE results
    IN IF Missing(results) /\ ShouldThrow(errors)
       THEN /\ last' = Record("generateReportData", "threw", ErrorMessage(errors), <<>>, {},
                              NoSolve)
            /\ UNCHANGED <<config, results, analysed, other>>
       ELSE /\ \E random \in RandomDraws(config, res) :
                   last' = Record("generateReportData", "returned", ErrorMessage(<<>>),
                                  [scenario_name |-> config.scenario_name,
                                   configuration |-> config,
                                   results |-> res,
                                   plots |-> generatePlots(config, res, random)],
                                  {}, NoSolve)
            /\ results' = res
            /\ analysed' = (analysed \/ Missing(results))
            /\ UNCHANGED <<config, other>>

NextAlias ==
    \/ \E c \in MassReplacements(config) : updateConfig(c) /\ AnalyzerOnly
    \/ analyze /\ AnalyzerOnly
    \/ GeneratePlots /\ AnalyzerOnly
    \/ \E d \in WrittenDeflections : CallerWritesResult(d) /\ AnalyzerOnly
    \/ \E c \in MassReplacements(config) : CallerWritesConfig(c) /\ AnalyzerOnly
    \/ GenerateReportData /\ AnalyzerOnly

SpecAlias == InitPlots /\ [][NextAlias]_vars

-----------------------------------------------------------------------------
(* The App component and its ConfigurationForm.  A handler that sets loading
   is taken in two steps: its try block from setLoading(true) on, with its
   catch if the try throws, and then its finally.  app.running is the handler
   that has not come to its finally yet.  app.alert is the message the
   handler or the step just taken has shown with alert(), "none" if it has
   shown none.  The values of the presets and of the material catalog are
   brought down to the model's units as those of getDefaultConfig are. *)

\* The defaultConfig literal of the mount effect and of handleLoadPreset
defaultConfig == getDefaultConfig

\* presetsData of loadInitialData
presets ==
    [light_construction |->
         [MakeConfig(Fin(1000), Fin(100), Fin(12), Fin(1), Fin(1), Fin(1), Fin(2))
              EXCEPT !.scenario_name = "Light Construction",
                     !.material.name = "Nylon",
                     !.geometry.safety_factor_min = Fin((5 * Milli) \div 2)],
     heavy_equipment |->
         [MakeConfig(Fin(1400), Fin(150), Fin(18), Fin(MaxSpan), Fin(1), Fin(2),
                     Fin(MaxFallHeight))
              EXCEPT !.scenario_name = "Heavy Equipment",
                     !.material.name = "Polyester",
                     !.material.density = Fin(1380),
                     !.material.strain_limit = Fin((8 * Milli) \div 100),
                     !.geometry.safety_factor_min = Fin(3 * Milli),
                     !.geometry.max_deflection_ratio = Fin((12 * Milli) \div 100)]]

\* materialsData of loadInitialData
materials ==
    [nylon |-> [name |-> "Nylon", elastic_modulus |-> Fin(1000),
                yield_strength |-> Fin(100), density |-> Fin(1150),
                cross_section_area |-> Fin(12), strain_limit |-> Fin(Milli \div 10)],
     polyester |-> [name |-> "Polyester", elastic_modulus |-> Fin(1400),
                    yield_strength |-> Fin(150), density |-> Fin(1380),
                    cross_section_area |-> Fin(18),
                    strain_limit |-> Fin((8 * Milli) \div 100)],
     polypropylene |-> [name |-> "Polypropylene", elastic_modulus |-> Fin(430),
                        yield_strength |-> Fin(44), density |-> Fin(900),
                        cross_section_area |-> Fin(15),
                        strain_limit |-> Fin((15 * Milli) \div 100)]]

\* App once its mount effect has run and the form has taken the config over
InitApp ==
    /\ config = getDefaultConfig
    /\ results = EmptyObj
    /\ last = Record("constructor", "returned", ErrorMessage(<<>>), <<>>, {}, NoSolve)
    /\ analysed = FALSE
    /\ other = NewAnalyzer(getDefaultConfig)
    /\ solver = SolverIdle
    /\ app = [AppUnmounted EXCEPT !.currentConfig = defaultConfig,
                                  !.localConfig = defaultConfig]

\* A step of the App leaves the analyzers of the other specifications alone:
\* the App makes an analyzer of its own in each handler
AppOnly == UNCHANGED <<config, results, last, analysed, other, solver>>

\* No handler is under way
Idle == app.running = "none"

\* setActiveTab(tab.id) of the tab buttons
SetActiveTab(tab) ==
    /\ Idle
    /\ app' = [app EXCEPT !.activeTab = tab, !.alert = "none"]

\* Mutant of handleInputChange: impact_velocity is left as it was
handleInputChangeKeepingVelocity(localConfig, section, field, value) ==
    [localConfig EXCEPT ![section][field] = value]

\* The updatedConfig of handleInputChange(section, field, value), made from
\* the localConfig of the render the handler belongs to
handleInputChange(localConfig, section, field, value) ==
    LET updatedConfig == [localConfig EXCEPT ![section][field] = value]
    IN IF section = "impact" /\ field = "fall_height"
       THEN [updatedConfig EXCEPT !.impact.impact_velocity = Velocity(value)]
       ELSE updatedConfig

\* The values typed into the fall height field, parseFloat applied: an empty
\* field is NaN
TypedFallHeights == {NaN, Fin(-1), Fin(2)}

\* onChange of an input of the form: setLocalConfig(updatedConfig) and
\* onConfigUpdate(updatedConfig), which is setCurrentConfig
InputChange(section, field, value) ==
    /\ Idle /\ app.activeTab = "configuration"
    /\ LET updatedConfig == handleInputChange(app.localConfig, section, field, value)
       IN app' = [app EXCEPT !.localConfig = updatedConfig,
                             !.currentConfig = updatedConfig,
                             !.alert = "none"]

\* The fields handleMaterialChange copies from the catalog, in its order
MaterialFields ==
    <<"name", "elastic_modulus", "yield_strength", "density", "cross_section_area">>

\* The updatedConfig of each handleInputChange call of handleMaterialChange:
\* every call is made in the same render and spreads the same localConfig
MaterialUpdates(localConfig, materialType) ==
    IF materialType = "custom"
    THEN <<handleInputChange(localConfig, "material", "name", "Custom Material")>>
    ELSE IF materialType \in DOMAIN materials
         THEN [j \in 1..Len(MaterialFields) |->
                  handleInputChange(localConfig, "material", MaterialFields[j],
                                    materials[materialType][MaterialFields[j]])]
         ELSE <<>>

\* A state set several times by one handler holds the last value set
LastSet(before, values) == IF Len(values) = 0 THEN before ELSE values[Len(values)]

\* onChange of the material select
handleMaterialChange(materialType) ==
    /\ Idle /\ app.activeTab = "configuration"
    /\ LET updates == MaterialUpdates(app.localConfig, materialType)
       IN app' = [app EXCEPT !.localConfig = LastSet(app.localConfig, updates),
                             !.currentConfig = LastSet(app.currentConfig, updates),
                             !.alert = "none"]

\* A handler can be started: no other one is under way, and the buttons and
\* the preset select are disabled while loading
StartHandler(handler) ==
    /\ Idle /\ ~app.loading
    /\ handler = "handleLoadPreset" => app.activeTab = "configuration"
    /\ handler = "handleGenerateReport" =>
           app.activeTab = "report" /\ app.analysisResults # Null

\* try { setLoading(true) of the four handlers that set it
Started(handler) ==
    [app EXCEPT !.loading = TRUE, !.running = handler, !.alert = "none"]

\* The try and the catch of handleLoadPreset(presetName); the effect of the
\* form then takes the new config over as localConfig
handleLoadPreset(presetName) ==
    /\ StartHandler("handleLoadPreset")
    /\ LET name == IF presetName = "" THEN "custom" ELSE presetName
           found == name = "custom" \/ name \in DOMAIN presets
           loaded == IF name = "custom" THEN defaultConfig
                     ELSE IF name \in DOMAIN presets THEN presets[name]
                     ELSE app.currentConfig
       IN app' = [Started("handleLoadPreset") EXCEPT
                     !.currentConfig = loaded,
                     !.localConfig = IF found THEN loaded ELSE @,
                     !.alert = IF found THEN "none" ELSE "Preset not found",
                     !.analysisResults = Null,
                     !.plots = Null]

\* new SafetyNetAnalyzer(cfg).analyze(): what it throws or returns
AnalyzeNew(cfg) ==
    LET errors == validateConfig(cfg)
        k == calculateStiffnessCoefficients(cfg)
    IN IF ShouldThrow(errors)
       THEN [threw |-> TRUE, results |-> EmptyObj]
       ELSE [threw |-> FALSE,
             results |-> AnalysisResults(cfg, k, calculateMaxDeflection(cfg, k).value)]

\* Mutant of handleRunAnalysis: setLoading(false) at the end of the try, no
\* finally
handleRunAnalysisWithoutFinally ==
    /\ StartHandler("handleRunAnalysis")
    /\ LET analysis == AnalyzeNew(app.currentConfig)
       IN app' = IF analysis.threw
                 THEN [Started("handleRunAnalysis") EXCEPT
                          !.alert = "Analysis failed", !.running = "none"]
                 ELSE [Started("handleRunAnalysis") EXCEPT
                          !.analysisResults = analysis.results,
                          !.activeTab = "results"]

\* The try and the catch of handleRunAnalysis
handleRunAnalysis ==
    /\ StartHandler("handleRunAnalysis")
    /\ LET analysis == AnalyzeNew(app.currentConfig)
       IN app' = IF analysis.threw
                 THEN [Started("handleRunAnalysis") EXCEPT !.alert = "Analysis failed"]
                 ELSE [Started("handleRunAnalysis") EXCEPT
                          !.analysisResults = analysis.results,
                          !.activeTab = "results"]

\* Mutant of ResultsOfNewAnalyzer: analyze is run whatever the App holds
ResultsOfNewAnalyzerAlwaysRun(cfg, analysisResults) == AnalyzeNew(cfg)

\* this.results of the analyzer handleGeneratePlots makes, when it comes to
\* generatePlots: if (!analysisResults) { analyzer.analyze() }
ResultsOfNewAnalyzer(cfg, analysisResults) ==
    IF analysisResults = Null THEN AnalyzeNew(cfg)
    ELSE [threw |-> FALSE, results |-> EmptyObj]

\* The try and the catch of handleGeneratePlots
handleGeneratePlots ==
    /\ StartHandler("handleGeneratePlots")
    /\ LET analyzer == ResultsOfNewAnalyzer(app.currentConfig, app.analysisResults)
       IN IF analyzer.threw
          THEN app' = [Started("handleGeneratePlots") EXCEPT
                          !.alert = "Failed to generate plots"]
          ELSE \E random \in RandomDraws(app.currentConfig, analyzer.results) :
                   app' = [Started("handleGeneratePlots") EXCEPT
                              !.plots = generatePlots(app.currentConfig, analyzer.results,
                                                      random),
                              !.activeTab = "visualization"]

\* The try and the catch of handleGenerateReport: this.generateHTMLReport is
\* read off a this that is undefined in the component, the TypeError is caught
handleGenerateReport ==
    /\ StartHandler("handleGenerateReport")
    /\ app' = [Started("handleGenerateReport") EXCEPT
                  !.alert = "Failed to generate report"]

\* finally { setLoading(false) } of the handler under way, which ends it
FinishHandler ==
    /\ ~Idle
    /\ app' = [app EXCEPT !.loading = FALSE, !.running = "none"]

\* The names the preset select can send, and one it cannot
PresetNames == {"", "custom", "light_construction", "heavy_equipment", "removed"}

\* The options of the material select that are chosen
SelectedMaterials == {"custom", "polyester"}

Tabs == {"configuration", "results", "visualization", "report"}

Handlers == {"handleLoadPreset", "handleRunAnalysis", "handleGeneratePlots",
             "handleGenerateReport"}

NextApp ==
    \/ \E tab \in Tabs : SetActiveTab(tab) /\ AppOnly
    \/ \E value \in TypedFallHeights :
           InputChange("impact", "fall_height", value) /\ AppOnly
    \/ \E materialType \in SelectedMaterials : handleMaterialChange(materialType) /\ AppOnly
    \/ \E presetName \in PresetNames : handleLoadPreset(presetName) /\ AppOnly
    \/ handleRunAnalysis /\ AppOnly
    \/ handleGeneratePlots /\ AppOnly
    \/ handleGenerateReport /\ AppOnly
    \/ FinishHandler /\ AppOnly

SpecApp == InitApp /\ [][NextApp]_vars

\* A handler that has come through its try or its catch goes on to its
\* finally: the handler is one synchronous run and nothing in it waits
SpecAppFair == SpecApp /\ WF_vars(FinishHandler /\ AppOnly)

-----------------------------------------------------------------------------
(* What the claims speak of *)

\* x > 0, of a number
Positive(x) == x = Infinity \/ (IsFin(x) /\ x.v > 0)

\* The six values validateConfig looks at, with the message of each
ValidatedFields == {"elastic_modulus", "yield_strength", "net_span", "num_strands",
                    "mass", "fall_height"}

FieldValue(cfg, f) ==
    CASE f = "elastic_modulus" -> cfg.material.elastic_modulus
      [] f = "yield_strength" -> cfg.material.yield_strength
      [] f = "net_span" -> cfg.geometry.net_span
      [] f = "num_strands" -> cfg.geometry.num_strands
      [] f = "mass" -> cfg.impact.mass
      [] f = "fall_height" -> cfg.impact.fall_height

FieldMessage(f) ==
    CASE f = "elastic_modulus" -> "Material elastic modulus must be positive"
      [] f = "yield_strength" -> "Material yield strength must be positive"
      [] f = "net_span" -> "Net span must be positive"
      [] f = "num_strands" -> "Number of strands must be positive"
      [] f = "mass" -> "Impact mass must be positive"
      [] f = "fall_height" -> "Fall height must be positive"

ViolatedFields(cfg) == {f \in ValidatedFields : ~Positive(FieldValue(cfg, f))}

\* The six validated values and the cross-section area are positive
AllPositive(cfg) ==
    /\ ViolatedFields(cfg) = {}
    /\ Positive(cfg.material.cross_section_area)

Range(seq) == {seq[i] : i \in 1..Len(seq)}

\* 2 * delta <= net_span, delta on the deflection grid
AtMostHalfSpan(delta, cfg) ==
    IsFin(delta) /\ 2 * delta.v <= cfg.geometry.net_span.v * Resolution

-----------------------------------------------------------------------------
\* C1: every result analyze returns has 0 <= max_deflection <= 0.5 * net_span,
\* whatever cross-section area the validator let through and whichever way
\* the solver loop was left.
C1_DeflectionWithinHalfSpan ==
    HasResponse(results) =>
        /\ Le(Fin(0), results.structural_response.max_deflection)
        /\ AtMostHalfSpan(results.structural_response.max_deflection,
                          results.input_parameters)

\* The fields analyze writes into the result, and into its structural_response
ResultFields == {"scenario_name", "input_parameters", "structural_response",
                 "design_limits", "design_checks", "stiffness_coefficients"}
ResponseFields == {"max_deflection", "max_stress", "safety_factor", "strain"}

\* The result carries something beside them, where a convergence flag would be
CarriesFlag(r) ==
    \/ DOMAIN r # ResultFields
    \/ DOMAIN r.structural_response # ResponseFields

\* |g(delta)| < tolerance for the energy equation of the result's own inputs
\* and coefficients
EnergyBalanced(r) ==
    LET delta == r.structural_response.max_deflection
    IN /\ IsFin(delta)
       /\ WithinTolerance(energyEquation(r.input_parameters,
                                         r.stiffness_coefficients, delta.v))

\* C2: the max_deflection of every result either balances the energy
\* equation within the tolerance or comes with a flag that marks it as not
\* converged (stated for the results of configurations whose cross-section
\* area is positive as well).
C2_BalancedOrFlagged ==
    (HasResponse(results) /\ AllPositive(results.input_parameters)) =>
        EnergyBalanced(results) \/ CarriesFlag(results)

\* C3: analyze on a configuration with a violated constraint throws an error
\* that names every violated constraint, and runs none of the stiffness,
\* deflection, stress or design-check computations.
C3_RefusesAndReportsAll ==
    (last.op = "analyze" /\ ViolatedFields(config) # {}) =>
        /\ last.outcome = "threw"
        /\ Range(last.error.parts) = {FieldMessage(f) : f \in ViolatedFields(config)}
        /\ last.computed = {}

\* C3 witness: analyze has thrown on mass = 0 with net_span = -1, and the
\* error lists both
C3_Witness ==
    /\ last.op = "analyze" /\ last.outcome = "threw"
    /\ config.impact.mass = Fin(0) /\ config.geometry.net_span = Fin(-1)
    /\ ViolatedFields(config) = {"mass", "net_span"}
    /\ last.error.parts = <<"Net span must be positive", "Impact mass must be positive">>

\* C4: validateConfig returns one message for each of the six values that is
\* not positive, whatever the others are, and nothing else; so the list is
\* empty exactly when all six are positive.
C4_OneMessagePerViolation ==
    last.op = "validateConfig" =>
        /\ Range(last.returned) = {FieldMessage(f) : f \in ViolatedFields(config)}
        /\ Len(last.returned) = Cardinality(ViolatedFields(config))
        /\ (last.returned = <<>>) <=> (\A f \in ValidatedFields : Positive(FieldValue(config, f)))

\* C4 witness: validateConfig has returned the six messages at once, one of
\* them for a NaN
C4_Witness ==
    /\ last.op = "validateConfig"
    /\ Len(last.returned) = 6
    /\ IsNaN(config.material.yield_strength)

\* c and d are the same configuration but for the fall height and the
\* impact velocity that is derived from it
OnlyFallHeightDiffers(c, d) ==
    /\ c.impact.fall_height # d.impact.fall_height
    /\ [c EXCEPT !.impact.fall_height = d.impact.fall_height,
                 !.impact.impact_velocity = d.impact.impact_velocity] = d

\* C5: when analyze returns for a configuration that differs from the
\* previously analysed one only by a greater fall_height, the new
\* max_deflection is not smaller than the previous one (stated for
\* configurations whose cross-section area is positive as well).
C5_MonotoneInFallHeight ==
    [][(/\ last'.op = "analyze" /\ last'.outcome = "returned"
        /\ HasResponse(results)
        /\ AllPositive(config')
        /\ OnlyFallHeightDiffers(results.input_parameters, config')
        /\ Lt(results.input_parameters.impact.fall_height, config'.impact.fall_height))
       => ~Lt(results'.structural_response.max_deflection,
              results.structural_response.max_deflection)]_vars

\* C6: when the loop runs out of iterations, the value returned is the last
\* midpoint the loop tried (stated for configurations whose cross-section
\* area is positive as well).
C6_ExhaustionReturnsLastMidpoint ==
    (last.op = "analyze" /\ last.solve.exit = "exhausted" /\ AllPositive(config)) =>
        results.structural_response.max_deflection = Fin(last.solve.last_mid)

IsQuotient(q, num, den) ==
    /\ IsFin(q) /\ IsFin(num) /\ IsFin(den) /\ den.v > 0
    /\ q.v * den.v <= num.v * Milli * Milli
    /\ num.v * Milli * Milli < (q.v + 1) * den.v

\* C8: in every result safety_factor is yield_strength / max_stress when
\* max_stress is not zero, and is Infinity exactly when max_stress is zero.
C8_SafetyFactorIsQuotient ==
    HasResponse(results) =>
        LET response == results.structural_response
            material == results.input_parameters.material
        IN /\ (response.safety_factor = Infinity) <=> (response.max_stress = Fin(0))
           /\ response.max_stress # Fin(0) =>
                  IsQuotient(response.safety_factor, material.yield_strength,
                             response.max_stress)

\* The names the result reports its checks, limits and response under
CheckFields == {"deflection_ok", "stress_ok", "strain_ok", "overall_safe"}
LimitFields == {"max_deflection_limit", "min_safety_factor", "max_strain_limit"}

\* C9: in every result overall_safe is the conjunction of deflection_ok,
\* stress_ok and strain_ok, and the four booleans come with the four response
\* values and the three limits, whichever checks fail.
C9_OverallSafeIsConjunction ==
    HasResponse(results) =>
        LET checks == results.design_checks
        IN /\ DOMAIN checks = CheckFields
           /\ \A c \in CheckFields : checks[c] \in BOOLEAN
           /\ checks.overall_safe =
                  (checks.deflection_ok /\ checks.stress_ok /\ checks.strain_ok)
           /\ DOMAIN results.structural_response = ResponseFields
           /\ DOMAIN results.design_limits = LimitFields

\* C9 witness: a result whose deflection check fails while the stress and
\* strain checks pass, reported with overall_safe false
C9_Witness ==
    /\ HasResponse(results)
    /\ ~results.design_checks.deflection_ok
    /\ results.design_checks.stress_ok /\ results.design_checks.strain_ok
    /\ ~results.design_checks.overall_safe

\* a <= b of two numbers of which neither is NaN, written out
AtMost(a, b) ==
    /\ ~IsNaN(a) /\ ~IsNaN(b)
    /\ \/ a = NegInfinity
       \/ b = Infinity
       \/ IsFin(a) /\ IsFin(b) /\ a.v <= b.v

\* C10: in every result deflection_ok says max_deflection <=
\* max_deflection_ratio * net_span, stress_ok says safety_factor >=
\* safety_factor_min and strain_ok says strain <= strain_limit, each against
\* the limit the result reports in design_limits.
C10_ChecksCompareWithLimits ==
    HasResponse(results) =>
        LET checks == results.design_checks
            response == results.structural_response
            limits == results.design_limits
            geometry == results.input_parameters.geometry
        IN /\ limits.max_deflection_limit =
                  Fin((geometry.max_deflection_ratio.v * geometry.net_span.v * Resolution)
                          \div Milli)
           /\ limits.min_safety_factor = geometry.safety_factor_min
           /\ limits.max_strain_limit = results.input_parameters.material.strain_limit
           /\ checks.deflection_ok =
                  AtMost(response.max_deflection, limits.max_deflection_limit)
           /\ checks.stress_ok = AtMost(limits.min_safety_factor, response.safety_factor)
           /\ checks.strain_ok = AtMost(response.strain, limits.max_strain_limit)

\* C10 witness: a result with zero stress, whose unbounded safety factor
\* passes the stress check, stored while the configuration has moved on to
\* another span
C10_Witness ==
    /\ HasResponse(results)
    /\ results.input_parameters.geometry.net_span # config.geometry.net_span
    /\ results.structural_response.max_stress = Fin(0)
    /\ results.structural_response.safety_factor = Infinity
    /\ results.design_checks.stress_ok

\* E * strain, strain in 1/Milli
IsProduct(p, E, strain) ==
    /\ IsFin(p) /\ IsFin(E) /\ IsFin(strain)
    /\ p.v = E.v * strain.v

\* C11: in every result strain is non-negative and max_stress is
\* elastic_modulus times the reported strain.
C11_StrainNonNegativeStressExact ==
    HasResponse(results) =>
        LET response == results.structural_response
        IN /\ Le(Fin(0), response.strain)
           /\ IsProduct(response.max_stress,
                        results.input_parameters.material.elastic_modulus,
                        response.strain)

\* C12: an analyze that follows a returned analyze, the configuration not
\* replaced in between, returns as well and stores the same max_deflection,
\* max_stress, safety_factor, strain and design_checks.
C12_AnalyzeIdempotent ==
    [][(/\ last.op = "analyze" /\ last.outcome = "returned"
        /\ last'.op = "analyze" /\ config' = config)
       => /\ last'.outcome = "returned"
          /\ results'.structural_response = results.structural_response
          /\ results'.design_checks = results.design_checks]_vars

\* C12 witness: analyze has returned for the second time in a row, with a
\* deflection above zero stored by the first
C12_Witness ==
    /\ last.op = "analyze" /\ last.outcome = "returned" /\ last.again
    /\ Gt(results.structural_response.max_deflection, Fin(0))

\* C13: analyze runs the solver only on a configuration whose
\* cross_section_area and strain_limit are positive, and validateConfig
\* returns a message whenever one of them is not.
C13_AreaAndStrainLimitValidated ==
    /\ (last.op = "analyze" /\ last.outcome = "returned") =>
           /\ Positive(config.material.cross_section_area)
           /\ Positive(config.material.strain_limit)
    /\ (last.op = "validateConfig"
           /\ ~(Positive(config.material.cross_section_area)
                  /\ Positive(config.material.strain_limit))) =>
           last.returned # <<>>

\* C14: a step of validateConfig or analyze, whether it returns or throws,
\* leaves the configuration as it was.
C14_ConfigNotMutated ==
    [][last'.op \in {"validateConfig", "analyze"} => config' = config]_vars

\* C14 witness: validateConfig has listed the violations of a configuration
\* that replaced an analysed one
C14_Witness ==
    /\ last.op = "validateConfig" /\ last.returned # <<>>
    /\ HasResponse(results)
    /\ results.input_parameters # config

\* The four series generatePlots returns
PlotNames == {"force_deflection", "safety_factor", "stress_distribution", "deflection_time"}

\* The force-deflection series has the maximum-deflection marker
HasMarker(plot) ==
    \E j \in 1..Len(plot.data) : plot.data[j].name = "Maximum Deflection"

\* C15: generatePlots returns the four series, all of them data exactly when
\* an analyze of this analyzer has returned before; when none has,
\* safety_factor, stress_distribution and deflection_time are null and the
\* force-deflection series is the curve alone.
C15_PlotsNeedAnalysis ==
    last.op = "generatePlots" =>
        LET plots == last.returned
        IN /\ DOMAIN plots = PlotNames
           /\ (\A n \in PlotNames : plots[n] # Null) <=> analysed
           /\ ~analysed =>
                  /\ plots.safety_factor = Null
                  /\ plots.stress_distribution = Null
                  /\ plots.deflection_time = Null
                  /\ plots.force_deflection # Null
                  /\ ~HasMarker(plots.force_deflection)

\* C15 witness: generatePlots has returned four series of data for a
\* configuration that replaced the analysed one and would not pass validation
C15_Witness ==
    /\ last.op = "generatePlots" /\ analysed
    /\ \A n \in PlotNames : last.returned[n] # Null
    /\ validateConfig(config) # <<>>

\* C16: in the system of two analyzers every step either leaves the first
\* analyzer (its config, its results, what its last call returned) as it was,
\* or is a step the first analyzer takes when it is called alone, with the
\* same effect on it; so what it stores and returns is what it would without
\* the calls on the other.
C16_AnalyzersIndependent ==
    [][NextOwn \/ UNCHANGED <<config, results, last, analysed>>]_vars

\* C16 witness: both analyzers hold a result, each of its own configuration,
\* the first after an analyze and the other after a generatePlots that came
\* with data
C16_Witness ==
    /\ last.op = "analyze" /\ HasResponse(results)
    /\ other.last.op = "generatePlots" /\ HasResponse(other.results)
    /\ results.input_parameters = config
    /\ other.results.input_parameters = other.config
    /\ other.config.impact # config.impact
    /\ other.last.returned.safety_factor # Null

\* A configuration with scenario_name, density, installation_angle,
\* impact_velocity, include_damping and damping_ratio blanked
WithoutInert(c) ==
    [c EXCEPT !.scenario_name = "",
              !.material.density = Fin(0),
              !.geometry.installation_angle = Fin(0),
              !.impact.impact_velocity = Fin(0),
              !.analysis.include_damping = FALSE,
              !.analysis.damping_ratio = Fin(0)]

\* C17: an analyze on a configuration that differs from the one of the
\* stored result only in scenario_name, density, installation_angle,
\* impact_velocity, include_damping or damping_ratio returns, and stores the
\* same structural_response, design_limits, design_checks and
\* stiffness_coefficients; and whether an analyze throws, and with which
\* messages, is what validation gives with those six fields blanked.
C17_InertFieldsHaveNoEffect ==
    [][/\ last'.op = "analyze" =>
              last'.error.parts = validateConfig(WithoutInert(config'))
       /\ (/\ last'.op = "analyze"
           /\ HasResponse(results)
           /\ WithoutInert(results.input_parameters) = WithoutInert(config'))
          => /\ last'.outcome = "returned"
             /\ results'.structural_response = results.structural_response
             /\ results'.design_limits = results.design_limits
             /\ results'.design_checks = results.design_checks
             /\ results'.stiffness_coefficients = results.stiffness_coefficients]_vars

\* C17 witness: analyze has returned on a configuration in which all six
\* fields have been replaced since the construction
C17_Witness ==
    /\ last.op = "analyze" /\ last.outcome = "returned"
    /\ config.scenario_name = "Renamed Scenario"
    /\ config.material.density = Fin(7850)
    /\ config.geometry.installation_angle = Fin(30)
    /\ config.impact.impact_velocity = Fin(0)
    /\ config.analysis.include_damping
    /\ config.analysis.damping_ratio = Fin(Milli \div 2)
    /\ results.input_parameters = config

\* C18: the solver runs at most analysis.max_iterations steps of the
\* configuration analysed, and a converged exit is one whose midpoint has
\* |g(midpoint)| < analysis.convergence_tolerance (stated for configurations
\* whose cross-section area is positive as well).
C18_SolverSettingsFromConfig ==
    (last.op = "analyze" /\ last.outcome = "returned" /\ AllPositive(config)) =>
        /\ Le(Fin(last.solve.steps), config.analysis.max_iterations)
        /\ last.solve.exit = "converged" =>
               Lt(Abs(energyEquation(config, results.stiffness_coefficients,
                                     last.solve.last_mid)),
                  config.analysis.convergence_tolerance)

\* The curve of the force-deflection series, its first trace
Curve(plots) == plots.force_deflection.data[1]

\* C19: the curve has SampleCount deflections, the first 0, the last
\* 0.3 * net_span, every step the same, each paired with the force
\* k1*d + k2*d^2 + k3*d^3 of the current configuration's coefficients; after
\* an analyze has returned exactly one more trace follows, the one point
\* (max_deflection, force at max_deflection) with the same coefficients, and
\* before that none.
C19_ForceDeflectionSeries ==
    last.op = "generatePlots" =>
        LET plots == last.returned
            curve == Curve(plots)
            k == calculateStiffnessCoefficients(config)
            data == plots.force_deflection.data
        IN /\ Len(curve.x) = SampleCount /\ Len(curve.y) = SampleCount
           /\ curve.x[1] = Fin(0)
           /\ 10 * curve.x[SampleCount].v = 3 * config.geometry.net_span.v * PlotResolution
           /\ \A j \in 1..(SampleCount - 1) :
                  curve.x[j + 1].v - curve.x[j].v = curve.x[2].v - curve.x[1].v
           /\ \A j \in 1..SampleCount : curve.y[j] = ForceAt(k, curve.x[j])
           /\ Len(data) = IF analysed THEN 2 ELSE 1
           /\ analysed =>
                  /\ data[2].x = <<ToPlot(results.structural_response.max_deflection)>>
                  /\ data[2].y = <<ForceAt(k, data[2].x[1])>>

\* C19 witness: a curve with its marker at a deflection above zero, drawn
\* for a span other than the one the deflection was computed for
C19_Witness ==
    /\ last.op = "generatePlots" /\ analysed
    /\ Len(last.returned.force_deflection.data) = 2
    /\ Gt(last.returned.force_deflection.data[2].x[1], Fin(0))
    /\ Gt(last.returned.force_deflection.data[2].y[1], Fin(0))
    /\ results.input_parameters.geometry.net_span # config.geometry.net_span

\* The strand stresses of the stress-distribution series
StrandSample(plots) == plots.stress_distribution.data[1].x

\* C20: the strand stress sample has num_strands values, each of them
\* max_stress * (1 + u), u in [-0.1, 0.1], clamped, and none below 0 or above
\* 1.2 * yield_strength (stated for results of configurations whose values,
\* the cross-section area among them, are positive).
C20_StrandSampleWithinBounds ==
    (last.op = "generatePlots" /\ analysed /\ AllPositive(results.input_parameters)) =>
        LET sample == StrandSample(last.returned)
            max_stress == results.structural_response.max_stress
            yield_strength == config.material.yield_strength
        IN /\ Fin(Len(sample)) = config.geometry.num_strands
           /\ \A j \in 1..Len(sample) :
                  /\ Le(Fin(0), sample[j])
                  /\ Le(sample[j], StressCap(yield_strength))
                  /\ \/ sample[j] \in {Fin(0), StressCap(yield_strength)}
                     \/ /\ Le(Scattered(max_stress, 0), sample[j])
                        /\ Le(sample[j], Scattered(max_stress, Milli))

\* The iteration that starts in this state is under way
StartOfIteration(sv) == sv.pc = "loop" /\ LoopContinues(sv.i)

\* 0 <= left <= right <= 0.5 * net_span
WithinBracket(sv) ==
    /\ 0 <= sv.left /\ sv.left <= sv.right /\ sv.right <= HalfSpan(config)

\* One of left and right has become (left + right) / 2, the other is kept
ReplacesOneByMidpoint ==
    LET mid == Midpoint(solver.left, solver.right)
    IN \/ solver'.left = mid /\ solver'.right = solver.right
       \/ solver'.right = mid /\ solver'.left = solver.left

\* g(0.5 * net_span) >= 0 and no stiffness coefficient is negative
RootInBracket ==
    LET k == calculateStiffnessCoefficients(config)
    IN /\ Ge(SolverEnergy(HalfSpan(config)), Fin(0))
       /\ Le(Fin(0), k.k1) /\ Le(Fin(0), k.k2) /\ Le(Fin(0), k.k3)

\* g(left) <= 0 <= g(right)
Bracketed(sv) ==
    /\ Le(SolverEnergy(sv.left), Fin(0))
    /\ Le(Fin(0), SolverEnergy(sv.right))

\* C21 as stated: at the start of every iteration 0 <= left <= right <=
\* 0.5 * net_span; an iteration that does not return replaces one of left and
\* right by the midpoint and the width of the bracket becomes half of what it
\* was; and with g(0.5 * net_span) >= 0 and no negative coefficient
\* g(left) <= 0 <= g(right) at the start of every iteration.
C21_BracketHalvesEveryIteration ==
    [][/\ StartOfIteration(solver) =>
              /\ WithinBracket(solver)
              /\ RootInBracket => Bracketed(solver)
       /\ (StartOfIteration(solver) /\ solver'.pc = "loop") =>
              /\ ReplacesOneByMidpoint
              /\ 2 * (solver'.right - solver'.left) = solver.right - solver.left]_vars

\* C21 amended: as above, but the width of the bracket never grows and becomes
\* half of what it was when the midpoint is exact, which on the grid is when
\* the width is an even number of steps; the midpoint lies within the bracket.
C21_BracketNarrows ==
    [][/\ StartOfIteration(solver) =>
              /\ WithinBracket(solver)
              /\ RootInBracket => Bracketed(solver)
       /\ (StartOfIteration(solver) /\ solver'.pc = "loop") =>
              /\ ReplacesOneByMidpoint
              /\ solver.left <= Midpoint(solver.left, solver.right)
              /\ Midpoint(solver.left, solver.right) <= solver.right
              /\ solver'.right - solver'.left <= solver.right - solver.left
              /\ (solver.right - solver.left) % 2 = 0 =>
                     2 * (solver'.right - solver'.left) = solver.right - solver.left]_vars

\* C21 witness: the root is in the bracket of a configuration of positive
\* values, the loop has halved the bracket down to one grid step and is
\* still iterating
C21_Witness ==
    /\ StartOfIteration(solver) /\ solver.i >= 3
    /\ AllPositive(config) /\ RootInBracket /\ Bracketed(solver)
    /\ solver.right - solver.left = 1

\* C22: the max_deflection, max_stress and safety_factor a generatePlots
\* draws its series from are those of an analysis of the configuration the
\* analyzer holds at that call (stated for configurations of positive values).
C22_PlotsFromCurrentConfig ==
    (last.op = "generatePlots" /\ HasResponse(results) /\ AllPositive(config)) =>
        LET k == calculateStiffnessCoefficients(config)
            delta_max == calculateMaxDeflection(config, k).value
        IN results.structural_response
               = AnalysisResults(config, k, delta_max).structural_response

\* C23: a write the caller makes to the object analyze returned, or to the
\* config object it passed in, leaves the analyzer's stored results as they
\* were.
C23_ResultsAreWorkingCopy ==
    [][last'.op \in {"callerWritesResult", "callerWritesConfig"} => results' = results]_vars

\* C24: an analyze that throws leaves this.results as it was, and what is
\* stored is at every moment either the empty object of the constructor or a
\* complete result.
C24_FailedAnalyzeKeepsResults ==
    [][/\ (last'.op = "analyze" /\ last'.outcome = "threw") => results' = results
       /\ results' = EmptyObj \/ DOMAIN results' = ResultFields]_vars

\* C24 witness: analyze has thrown on an analyzer that holds the result of an
\* earlier, successful analyze of another configuration
C24_Witness ==
    /\ last.op = "analyze" /\ last.outcome = "threw"
    /\ HasResponse(results)
    /\ results.input_parameters # config
    /\ ~ShouldThrow(validateConfig(results.input_parameters))

\* handleGeneratePlots has just come through its try without a throw
GeneratePlotsCompletes ==
    /\ Idle /\ app'.running = "handleGeneratePlots"
    /\ app'.alert = "none"

\* C25: a Generate Plots that completes on a valid configuration stores plots
\* whose four series are all there, the force-deflection one with its
\* maximum-deflection marker, whether or not Run Analysis has succeeded before.
C25_AppPlotsAreComplete ==
    [][(GeneratePlotsCompletes /\ AllPositive(app.currentConfig)) =>
           /\ app'.plots # Null
           /\ \A name \in PlotNames : app'.plots[name] # Null
           /\ HasMarker(app'.plots.force_deflection)]_vars

\* C26: the report data generateReportData returns holds a completed result
\* of the analyzer's configuration, whether or not analyze has run before:
\* structural_response and design_checks are there.
C26_ReportHoldsCompletedResult ==
    (last.op = "generateReportData" /\ last.outcome = "returned"
         /\ AllPositive(config)) =>
        /\ HasResponse(last.returned.results)
        /\ "design_checks" \in DOMAIN last.returned.results

\* The five material fields of cfg are those of the catalog entry
HasCatalogMaterial(cfg, materialType) ==
    \A j \in 1..Len(MaterialFields) :
        cfg.material[MaterialFields[j]] = materials[materialType][MaterialFields[j]]

\* C27: once a catalog material has been selected, the form's config and the
\* App's config have the name, elastic_modulus, yield_strength, density and
\* cross_section_area of the catalog entry.
C27_MaterialSelectionKeepsAllFields ==
    [][\A materialType \in DOMAIN materials :
           handleMaterialChange(materialType) =>
               /\ HasCatalogMaterial(app'.localConfig, materialType)
               /\ HasCatalogMaterial(app'.currentConfig, materialType)]_vars


\* plots is what a handleGeneratePlots on cfg stores, with or without the
\* analysis of cfg behind it
PlotsOf(cfg, plots) ==
    \E r \in {EmptyObj, AnalyzeNew(cfg).results} :
        \E random \in RandomDraws(cfg, r) : plots = generatePlots(cfg, r, random)

\* C28: whenever the App holds analysisResults they are the analysis of the
\* current configuration, and whenever it holds plots they are plots of the
\* current configuration.
C28_AppResultsFromCurrentConfig ==
    /\ app.analysisResults # Null =>
           /\ app.analysisResults.input_parameters = app.currentConfig
           /\ app.analysisResults = AnalyzeNew(app.currentConfig).results
    /\ app.plots # Null => PlotsOf(app.currentConfig, app.plots)


\* The configurations the App and the form hold
HeldConfigs == {app.currentConfig, app.localConfig}

\* v is the square root of 2 * g * h, rounded as Math.sqrt is on the grid
IsRoundedRoot(v, h) ==
    /\ IsFin(v) /\ IsFin(h) /\ v.v >= 0
    /\ v.v * v.v <= 2 * g * h.v
    /\ 2 * g * h.v < (v.v + 1) * (v.v + 1)

\* C29 as stated: in every configuration the UI reaches impact_velocity
\* squared is 2 * 9.81 * fall_height (up to the rounding of the square root).
C29_VelocitySquaredIsTwoGH ==
    \A cfg \in HeldConfigs : IsRoundedRoot(cfg.impact.impact_velocity, cfg.impact.fall_height)

\* C29 amended: in every configuration the UI reaches impact_velocity is
\* Math.sqrt(2 * 9.81 * fall_height): the rounded root of 2 * 9.81 *
\* fall_height when fall_height is a number that is not negative, NaN when
\* fall_height is negative or NaN.
C29_VelocityIsSqrtOfFallHeight ==
    \A cfg \in HeldConfigs :
        LET h == cfg.impact.fall_height
            v == cfg.impact.impact_velocity
        IN /\ v = Velocity(h)
           /\ (IsFin(h) /\ h.v >= 0) => IsRoundedRoot(v, h)
           /\ (IsNaN(h) \/ (IsFin(h) /\ h.v < 0)) => IsNaN(v)

\* C29 witness: the fall height field has been emptied and a catalog material
\* selected after it, and the velocity is NaN in both configurations
C29_Witness ==
    \A cfg \in HeldConfigs :
        /\ IsNaN(cfg.impact.fall_height) /\ IsNaN(cfg.impact.impact_velocity)
        /\ cfg.material.cross_section_area = materials.polyester.cross_section_area
        /\ cfg.material.name = "Custom Material"


\* handleRunAnalysis has just run into its catch
RunAnalysisFails == Idle /\ ~app.loading /\ app'.alert = "Analysis failed"

\* C30: a handler that has set loading sets it back whichever way it ends,
\* through its try or through its catch: loading is true only while a handler
\* is under way, and every handler under way comes to its end.  A Run
\* Analysis that fails leaves analysisResults and the active tab as they were,
\* and so does the finally of every handler.
C30_LoadingIsAlwaysReset ==
    /\ app.loading ~> ~app.loading
    /\ [][/\ app'.loading => app'.running \in Handlers
          /\ RunAnalysisFails =>
                 /\ app'.running = "handleRunAnalysis"
                 /\ app'.analysisResults = app.analysisResults
                 /\ app'.activeTab = app.activeTab
          /\ (~Idle /\ app'.running = "none") =>
                 /\ ~app'.loading
                 /\ app'.analysisResults = app.analysisResults
                 /\ app'.activeTab = app.activeTab]_vars

\* C30 witness: a Run Analysis has failed on an edited configuration while the
\* App held the results of an earlier one; loading is back to false
C30_Witness ==
    /\ app.alert = "Analysis failed" /\ ~app.loading /\ app.running = "none"
    /\ app.analysisResults # Null
    /\ app.activeTab = "configuration"

=============================================================================
